---- MODULE Spec2Model ----
(***************************************************************************)
(* Model of app.py of fpl-ai-planner: the gameweek fallback, the name      *)
(* filters (exclude, lock) and the squad optimisation with its reported    *)
(* results (squad, starting XI, captain, spent, predicted points, bench).  *)
(*                                                                         *)
(* Money is kept in tenths of a million (now_cost, line 90), scores in     *)
(* tenths of a point, so that all arithmetic is exact integer arithmetic.  *)
(* A string is a sequence of one-character strings.                        *)
(***************************************************************************)
EXTENDS Integers, Sequences, FiniteSets, TLC

VARIABLES
    pc,                 \* position of the script run
    players,            \* the players table (a sequence of rows, re-indexed 1..n)
    budget,             \* sidebar: budget, in tenths
    max_per_team,       \* sidebar: max per team
    use_only_available, \* sidebar: exclude injured/suspended
    lock_names,         \* sidebar: lock list, text.split(",")
    exclude_names,      \* sidebar: exclude list, text.split(",")
    lp_status,          \* P.status after P.solve
    in_squad,           \* column in_squad: row -> 0/1
    in_xi,              \* column in_xi: row -> 0/1
    is_captain,         \* column is_captain: row -> 0/1
    squad,              \* rows of the squad table, in display order
    xi,                 \* rows of the starting XI table, in display order
    cap,                \* the captain's row <<i>>, or None
    spent,              \* reported budget spent
    pred_points,        \* reported predicted points
    bench_order,        \* rows of the bench table, in display order
    events,             \* boot["events"]
    current_gw          \* result of gameweek_from_events(events)

vars == <<pc, players, budget, max_per_team, use_only_available, lock_names,
          exclude_names, lp_status, in_squad, in_xi, is_captain, squad, xi, cap,
          spent, pred_points, bench_order, events, current_gw>>

optVars == <<pc, players, budget, max_per_team, use_only_available, lock_names,
             exclude_names, lp_status, in_squad, in_xi, is_captain, squad, xi,
             cap, spent, pred_points, bench_order>>

\* None: a missing row
None == <<>>

(***************************************************************************)
(* Bounds of the model.                                                    *)
(***************************************************************************)
\* longest lock list and longest exclude list tried
MaxNames == 2
\* rows that may hold a non-zero value after a solve that proved nothing
MaxLeftover == 1
\* longest event list tried
MaxEvents == 3
\* event ids are drawn from 1..MaxId
MaxId == 2

(***************************************************************************)
(* Strings: str.lower, str.strip and the substring test `p in s`.          *)
(***************************************************************************)
UpperToLower ==
    [ch \in {"A","B","C","D","E","F","G","H","I","J","K","L","M","N","O","P",
             "Q","R","S","T","U","V","W","X","Y","Z"} |->
        CASE ch = "A" -> "a" [] ch = "B" -> "b" [] ch = "C" -> "c"
          [] ch = "D" -> "d" [] ch = "E" -> "e" [] ch = "F" -> "f"
          [] ch = "G" -> "g" [] ch = "H" -> "h" [] ch = "I" -> "i"
          [] ch = "J" -> "j" [] ch = "K" -> "k" [] ch = "L" -> "l"
          [] ch = "M" -> "m" [] ch = "N" -> "n" [] ch = "O" -> "o"
          [] ch = "P" -> "p" [] ch = "Q" -> "q" [] ch = "R" -> "r"
          [] ch = "S" -> "s" [] ch = "T" -> "t" [] ch = "U" -> "u"
          [] ch = "V" -> "v" [] ch = "W" -> "w" [] ch = "X" -> "x"
          [] ch = "Y" -> "y" [] ch = "Z" -> "z"]

StrLower(s) ==
    [i \in 1..Len(s) |-> IF s[i] \in DOMAIN UpperToLower THEN UpperToLower[s[i]] ELSE s[i]]

IsSpace(ch) == ch \in {" ", "\t", "\n"}

RECURSIVE StrLStrip(_)
StrLStrip(s) ==
    IF s # <<>> /\ IsSpace(Head(s)) THEN StrLStrip(Tail(s)) ELSE s

RECURSIVE StrRStrip(_)
StrRStrip(s) ==
    IF s # <<>> /\ IsSpace(s[Len(s)]) THEN StrRStrip(SubSeq(s, 1, Len(s) - 1)) ELSE s

StrStrip(s) == StrRStrip(StrLStrip(s))

\* p in s
StrIn(p, s) ==
    \E k \in 0..(Len(s) - Len(p)) : SubSeq(s, k + 1, k + Len(p)) = p

\* lines 39-42: any(p in name_l for p in pats), pats the non-empty entries, lowered
\* and stripped
contains_any(name, patterns) ==
    LET name_l == StrStrip(StrLower(name))
    IN  \E j \in 1..Len(patterns) :
            /\ patterns[j] # <<>>
            /\ StrIn(StrStrip(StrLower(patterns[j])), name_l)

\* any(x.strip() for x in names)
AnyNonBlank(names) == \E j \in 1..Len(names) : StrStrip(names[j]) # <<>>

(***************************************************************************)
(* The scored players table before filtering (lines 81-125).               *)
(***************************************************************************)
Row(id, nm, club, p, c, s, st) ==
    [id |-> id, player_name |-> nm, team_short |-> club, pos |-> p,
     cost |-> c, score |-> s, status |-> st]

ScoredPlayers ==
    << Row(1,  <<"A"," ","k","e">>, "ARS", "GKP", 50,  40, "a"),
       Row(2,  <<"B"," ","c","e">>, "ARS", "GKP", 50,  30, "a"),
       Row(3,  <<"C"," ","d","e">>, "CHE", "GKP", 45,  30, "a"),
       Row(4,  <<"D"," ","k","e">>, "ARS", "DEF", 60,  50, "a"),
       Row(5,  <<"E"," ","f","e">>, "ARS", "DEF", 55,  45, "a"),
       Row(6,  <<"F"," ","g","e">>, "CHE", "DEF", 55,  40, "a"),
       Row(7,  <<"G"," ","h","e">>, "LIV", "DEF", 50,  40, "a"),
       Row(8,  <<"H"," ","i","e">>, "MCI", "DEF", 45,  35, "a"),
       Row(9,  <<"Q"," ","j","e">>, "TOT", "DEF", 40,  35, "i"),
       Row(10, <<"J"," ","l","e">>, "LIV", "MID", 125, 90, "a"),
       Row(11, <<"V"," ","m","e">>, "MCI", "MID", 95,  70, "a"),
       Row(12, <<"L"," ","n","e">>, "TOT", "MID", 75,  60, "a"),
       Row(13, <<"M"," ","o","e">>, "AVL", "MID", 65,  50, "a"),
       Row(14, <<"N"," ","p","e">>, "NEW", "MID", 55,  30, "a"),
       Row(15, <<"O"," ","r","e">>, "NEW", "FWD", 110, 80, "a"),
       Row(16, <<"P"," ","s","e">>, "EVE", "FWD", 55,  60, "a"),
       Row(17, <<"R"," ","t","e">>, "EVE", "FWD", 55,  35, "a") >>

\* the entries a user types into the lock and exclude boxes
Patterns == { <<>>, <<" ">>, <<" ","Q">>, <<"K">>, <<"e">> }

\* text.split(",") has at least one entry
NameLists == UNION { [1..n -> Patterns] : n \in 1..MaxNames }

\* the lists of a box without a comma
OneNameLists == [1..1 -> Patterns]

\* the sidebar accepts 95.0 to 110.0 in steps of 0.5
Budgets == {980, 1010}


\* the sidebar accepts 1, 2 or 3
TeamCaps == {1, 2, 3}

(***************************************************************************)
(* The binary programme FPL_Squad (lines 139-181). A value of the          *)
(* variables pick, start and capt is given by the sets x, y and c of the   *)
(* rows whose variable is 1.                                               *)
(***************************************************************************)
idx == DOMAIN players

\* sum(v[i] * players[col][i] for i in idx), for the rows S where v is 1
RECURSIVE RowSum(_, _)
RowSum(S, col) ==
    IF S = {} THEN 0
    ELSE LET i == CHOOSE j \in S : TRUE
         IN  players[i][col] + RowSum(S \ {i}, col)

RowsAt(S, p) == {i \in S : players[i].pos = p}

\* the start term summed over the cost column
StartTermOfCost(y) == RowSum(y, "cost")
\* the objective without its captain term
CaptTermMissing(c) == 0

\* line 151: the objective is the sum of a term in start and a term in capt,
\* StartTerm(y) + CaptTerm(c)
StartTerm(y) == RowSum(y, "score")
CaptTerm(c) == RowSum(c, "score")

\* the budget row summed over the score column
BudgetOverScore(x) == RowSum(x, "score") <= budget

\* line 153
BudgetConstraint(x) == RowSum(x, "cost") <= budget
\* line 154
SquadSize(x) == Cardinality(x) = 15
\* line 155
XISize(y) == Cardinality(y) = 11
\* lines 156-162
XIFormation(y) ==
    /\ Cardinality(RowsAt(y, "GKP")) = 1
    /\ Cardinality(RowsAt(y, "DEF")) >= 3
    /\ Cardinality(RowsAt(y, "DEF")) <= 5
    /\ Cardinality(RowsAt(y, "MID")) >= 2
    /\ Cardinality(RowsAt(y, "MID")) <= 5
    /\ Cardinality(RowsAt(y, "FWD")) >= 1
    /\ Cardinality(RowsAt(y, "FWD")) <= 3
\* lines 164-167
SquadQuota(x) ==
    /\ Cardinality(RowsAt(x, "GKP")) = 2
    /\ Cardinality(RowsAt(x, "DEF")) = 5
    /\ Cardinality(RowsAt(x, "MID")) = 5
    /\ Cardinality(RowsAt(x, "FWD")) = 3
\* lines 169-171
ClubCap(x) ==
    \A club \in {players[i].team_short : i \in idx} :
        Cardinality({i \in x : players[i].team_short = club}) <= max_per_team
\* line 174
StartImpliesPick(x, y) == y \subseteq x
\* line 175
CaptImpliesStart(y, c) == c \subseteq y
\* line 177
OneCaptain(c) == Cardinality(c) = 1
\* a lock written as x[i] <= 1
LockAsUpperBound(x) == \A i \in idx : players[i].is_locked => Cardinality({i} \cap x) <= 1

\* lines 179-181
LockConstraint(x) == \A i \in idx : players[i].is_locked => i \in x

SquadConstraints(x) ==
    /\ SquadSize(x)
    /\ SquadQuota(x)
    /\ BudgetConstraint(x)
    /\ ClubCap(x)
    /\ LockConstraint(x)

XIConstraints(x, y) ==
    /\ StartImpliesPick(x, y)
    /\ XISize(y)
    /\ XIFormation(y)

CaptainConstraints(y, c) ==
    /\ CaptImpliesStart(y, c)
    /\ OneCaptain(c)

Constraints(x, y, c) ==
    /\ SquadConstraints(x)
    /\ XIConstraints(x, y)
    /\ CaptainConstraints(y, c)

\* the subsets of S with k elements
RECURSIVE KSubsets(_, _)
KSubsets(S, k) ==
    IF k = 0 THEN {{}}
    ELSE IF Cardinality(S) < k THEN {}
    ELSE LET e == CHOOSE j \in S : TRUE
         IN  KSubsets(S \ {e}, k) \cup {t \cup {e} : t \in KSubsets(S \ {e}, k - 1)}

\* the feasible region, enumerated squad by squad
FeasibleSquads == {x \in KSubsets(idx, 15) : SquadConstraints(x)}
FeasibleXIs(x) == {y \in {z \in SUBSET x : XISize(z)} : XIConstraints(x, y)}
FeasibleCaptains(x, y) == {c \in {{k} : k \in x} : CaptainConstraints(y, c)}

\* the objective values over the feasible region
ValuesAt(x, y) ==
    UNION { {s + CaptTerm(c) : c \in FeasibleCaptains(x, y)} : s \in {StartTerm(y)} }

FeasibleValues ==
    UNION { UNION { ValuesAt(x, y) : y \in FeasibleXIs(x) } : x \in FeasibleSquads }

SetMax(V) == CHOOSE v \in V : \A w \in V : w <= v


(***************************************************************************)
(* Result tables (lines 185-211). A table is the sequence of its rows'     *)
(* indices in `players`.                                                   *)
(***************************************************************************)
\* string order of the position codes, as sort_values compares them
PosRank == [DEF |-> 1, FWD |-> 2, GKP |-> 3, MID |-> 4]

\* u before v in the lexicographic order of two key tuples of one length
RECURSIVE LexLess(_, _)
LexLess(u, v) ==
    /\ u # <<>>
    /\ \/ Head(u) < Head(v)
       \/ Head(u) = Head(v) /\ LexLess(Tail(u), Tail(v))

\* a lexsort: the rows of S in ascending order of key, rows of equal key in
\* index order
RECURSIVE StableSort(_, _)
StableSort(S, key) ==
    IF S = {} THEN <<>>
    ELSE LET m == CHOOSE i \in S :
                    \A j \in S \ {i} : LexLess(key[i] \o <<i>>, key[j] \o <<j>>)
         IN  <<m>> \o StableSort(S \ {m}, key)

\* a sort that is not stable: every order of the rows of S that ascends in key
RECURSIVE AscendingOrders(_, _)
AscendingOrders(S, key) ==
    IF S = {} THEN {<<>>}
    ELSE UNION { {<<m>> \o t : t \in AscendingOrders(S \ {m}, key)}
               : m \in {i \in S : \A j \in S : key[i] <= key[j]} }

\* every order of the rows of S that descends in key
RECURSIVE DescendingOrders(_, _)
DescendingOrders(S, key) ==
    IF S = {} THEN {<<>>}
    ELSE UNION { {<<m>> \o t : t \in DescendingOrders(S \ {m}, key)}
               : m \in {i \in S : \A j \in S : key[i] >= key[j]} }

SeqRows(t) == {t[k] : k \in 1..Len(t)}

\* lines 185-187: int(pulp.value(v[i])) for every row
Column(ones) == [i \in idx |-> IF i \in ones THEN 1 ELSE 0]

\* line 189
SquadTable(pick, start) ==
    StableSort({i \in idx : pick[i] = 1},
               [i \in idx |-> <<1 - start[i], PosRank[players[i].pos], 0 - players[i].score>>])

\* line 190
XITable(start) ==
    StableSort({i \in idx : start[i] = 1},
               [i \in idx |-> <<PosRank[players[i].pos], 0 - players[i].score>>])

\* line 191
Captain(xiT, capt) ==
    LET rows == SelectSeq(xiT, LAMBDA i : capt[i] = 1)
    IN  IF rows # <<>> THEN <<rows[1]>> ELSE None

\* line 193
Spent(squadT) == RowSum(SeqRows(squadT), "cost")

\* line 194
PredPoints(xiT, capRow) ==
    RowSum(SeqRows(xiT), "score") + (IF capRow # None THEN players[capRow[1]].score ELSE 0)

\* the bench sorted with ascending=False
BenchOutDescending(rows) ==
    DescendingOrders(rows, [i \in idx |-> players[i].score])

\* line 210: the benched outfield rows, ordered by score
BenchOutOrders(rows) ==
    AscendingOrders(rows, [i \in idx |-> players[i].score])

\* lines 208-211
BenchOrders(squadT, start) ==
    LET bench == SelectSeq(squadT, LAMBDA i : start[i] = 0)
        bench_gk == SelectSeq(bench, LAMBDA i : players[i].pos = "GKP")
        outRows == {i \in SeqRows(bench) : players[i].pos # "GKP"}
    IN  {bench_out \o bench_gk : bench_out \in BenchOutOrders(outRows)}

(***************************************************************************)
(* The script run.                                                         *)
(***************************************************************************)
NoTable == <<>>

\* the state when the script reaches line 127: the sidebar settings and the
\* scored table
Start(lockLists, excludeLists, budgets, caps) ==
    /\ pc = "scored"
    /\ players = ScoredPlayers
    /\ budget \in budgets
    /\ max_per_team \in caps
    /\ use_only_available \in BOOLEAN
    /\ lock_names \in lockLists
    /\ exclude_names \in excludeLists
    /\ lp_status = "NotSolved"
    /\ in_squad = NoTable
    /\ in_xi = NoTable
    /\ is_captain = NoTable
    /\ squad = NoTable
    /\ xi = NoTable
    /\ cap = None
    /\ spent = 0
    /\ pred_points = 0
    /\ bench_order = NoTable
    /\ events = <<>>
    /\ current_gw = [kind |-> "unset"]

\* every budget and team cap, with one entry in each of the two name boxes
Init == Start(OneNameLists, OneNameLists, Budgets, TeamCaps)

\* lines 127-128
AvailabilityFilter ==
    /\ pc = "scored"
    /\ players' = IF use_only_available
                  THEN SelectSeq(players, LAMBDA r : r.status = "a")
                  ELSE players
    /\ pc' = "available"
    /\ UNCHANGED <<budget, max_per_team, use_only_available, lock_names,
                   exclude_names, lp_status, in_squad, in_xi, is_captain, squad,
                   xi, cap, spent, pred_points, bench_order, events, current_gw>>

\* an exclude step that spares the players matching a lock pattern
ExcludedUnlessLocked(table, names) ==
    IF AnyNonBlank(names)
    THEN SelectSeq(table, LAMBDA r : \/ ~contains_any(r.player_name, names)
                                     \/ contains_any(r.player_name, lock_names))
    ELSE table

\* lines 130-131
Excluded(table, names) ==
    IF AnyNonBlank(names)
    THEN SelectSeq(table, LAMBDA r : ~contains_any(r.player_name, names))
    ELSE table

ExcludeFilter ==
    /\ pc = "available"
    /\ players' = Excluded(players, exclude_names)
    /\ pc' = "excluded"
    /\ UNCHANGED <<budget, max_per_team, use_only_available, lock_names,
                   exclude_names, lp_status, in_squad, in_xi, is_captain, squad,
                   xi, cap, spent, pred_points, bench_order, events, current_gw>>

\* lines 133-136
Flagged(table, names) ==
    [i \in DOMAIN table |->
        [id |-> table[i].id, player_name |-> table[i].player_name,
         team_short |-> table[i].team_short, pos |-> table[i].pos,
         cost |-> table[i].cost, score |-> table[i].score,
         is_locked |-> contains_any(table[i].player_name, names)]]

FlagLocks ==
    /\ pc = "excluded"
    /\ players' = Flagged(players, lock_names)
    /\ pc' = "ready"
    /\ UNCHANGED <<budget, max_per_team, use_only_available, lock_names,
                   exclude_names, lp_status, in_squad, in_xi, is_captain, squad,
                   xi, cap, spent, pred_points, bench_order, events, current_gw>>

\* lines 185-211, from the values x, y, c the solver left in the variables
Report(x, y, c) ==
    /\ in_squad' = Column(x)
    /\ in_xi' = Column(y)
    /\ is_captain' = Column(c)
    /\ squad' = SquadTable(in_squad', in_xi')
    /\ xi' = XITable(in_xi')
    /\ cap' = Captain(xi', is_captain')
    /\ spent' = Spent(squad')
    /\ pred_points' = PredPoints(xi', cap')
    /\ bench_order' \in BenchOrders(squad', in_xi')
    /\ pc' = "reported"
    /\ UNCHANGED <<players, budget, max_per_team, use_only_available, lock_names,
                   exclude_names, events, current_gw>>

\* the rows whose variables may be left at 1 by a solve that found no solution
LeftoverRows == {i \in idx : i <= MaxLeftover}

\* lines 138-211 when the programme has a solution: the solver returns one of
\* the feasible values of the largest objective
BuildSquadOptimal ==
    /\ pc = "ready"
    /\ \E vals \in {FeasibleValues} :
         /\ vals # {}
         /\ \E best \in {SetMax(vals)}, x \in FeasibleSquads :
            \E y \in FeasibleXIs(x) :
                \E s \in {StartTerm(y)} :
                    \E c \in FeasibleCaptains(x, y) :
                        /\ s + CaptTerm(c) = best
                        /\ lp_status' = "Optimal"
                        /\ Report(x, y, c)

\* lines 138-211 when it has none: P.solve returns the status, which line 183
\* discards, and the report is built from whatever the variables hold
BuildSquadInfeasible ==
    /\ pc = "ready"
    /\ FeasibleValues = {}
    /\ lp_status' = "Infeasible"
    /\ \E x \in SUBSET LeftoverRows, y \in SUBSET LeftoverRows, c \in SUBSET LeftoverRows :
            Report(x, y, c)

Next ==
    \/ AvailabilityFilter
    \/ ExcludeFilter
    \/ FlagLocks
    \/ BuildSquadOptimal
    \/ BuildSquadInfeasible

Spec == Init /\ [][Next]_vars

(***************************************************************************)
(* The filters alone, over longer name lists: a run in which the button is *)
(* not pressed (lines 214-215) ends with the pool ready.                   *)
(***************************************************************************)
InitNames == Start(NameLists, NameLists, {1000}, {3})

NextNames ==
    \/ AvailabilityFilter
    \/ ExcludeFilter
    \/ FlagLocks

SpecNames == InitNames /\ [][NextNames]_vars


(***************************************************************************)
(* The gameweek fallback (lines 26-34, called at line 98). The gameweek    *)
(* only enters the scores, which the optimisation above takes as given, so *)
(* it is run as a specification of its own over bounded event lists.       *)
(***************************************************************************)
Events ==
    [id : 1..MaxId, is_current : BOOLEAN, is_next : BOOLEAN, finished : BOOLEAN]

EventLists == UNION { [1..n -> Events] : n \in 0..MaxEvents }

\* gameweek_from_events with the rules for current and next in the wrong order
gameweek_next_first(evs) ==
    LET cur == SelectSeq(evs, LAMBDA e : e.is_current)
        nxt == SelectSeq(evs, LAMBDA e : e.is_next)
        fut == SelectSeq(evs, LAMBDA e : ~e.finished)
    IN  IF nxt # <<>> THEN [kind |-> "id", id |-> nxt[1].id]
        ELSE IF cur # <<>> THEN [kind |-> "id", id |-> cur[1].id]
        ELSE IF fut # <<>> THEN [kind |-> "id", id |-> fut[1].id]
        ELSE IF evs # <<>> THEN [kind |-> "id", id |-> evs[Len(evs)].id]
        ELSE [kind |-> "IndexError"]

\* lines 26-34; events[-1] of an empty list raises IndexError
gameweek_from_events(evs) ==
    LET cur == SelectSeq(evs, LAMBDA e : e.is_current)
        nxt == SelectSeq(evs, LAMBDA e : e.is_next)
        fut == SelectSeq(evs, LAMBDA e : ~e.finished)
    IN  IF cur # <<>> THEN [kind |-> "id", id |-> cur[1].id]
        ELSE IF nxt # <<>> THEN [kind |-> "id", id |-> nxt[1].id]
        ELSE IF fut # <<>> THEN [kind |-> "id", id |-> fut[1].id]
        ELSE IF evs # <<>> THEN [kind |-> "id", id |-> evs[Len(evs)].id]
        ELSE [kind |-> "IndexError"]

InitGW ==
    /\ pc = "boot"
    /\ players = NoTable
    /\ budget = 1000
    /\ max_per_team = 3
    /\ use_only_available = TRUE
    /\ lock_names = << <<>> >>
    /\ exclude_names = << <<>> >>
    /\ lp_status = "NotSolved"
    /\ in_squad = NoTable
    /\ in_xi = NoTable
    /\ is_captain = NoTable
    /\ squad = NoTable
    /\ xi = NoTable
    /\ cap = None
    /\ spent = 0
    /\ pred_points = 0
    /\ bench_order = NoTable
    /\ events \in EventLists
    /\ current_gw = [kind |-> "unset"]

\* line 98
ComputeGameweek ==
    /\ pc = "boot"
    /\ current_gw.kind = "unset"
    /\ current_gw' = gameweek_from_events(events)
    /\ UNCHANGED <<events, optVars>>

NextGW == ComputeGameweek

SpecGW == InitGW /\ [][NextGW]_vars


(***************************************************************************)
(* Properties.                                                             *)
(***************************************************************************)
Reported == pc = "reported"
\* a run whose programme had a solution
FeasibleRun == Reported /\ lp_status = "Optimal"

PickedRows == {i \in idx : in_squad[i] = 1}
StartRows == {i \in idx : in_xi[i] = 1}
CaptRows == {i \in idx : is_captain[i] = 1}
CountAt(t, p) == Cardinality({k \in 1..Len(t) : players[t[k]].pos = p})

\* C1: the reported squad has 15 rows, 2 GKP, 5 DEF, 5 MID and 3 FWD, and the
\* reported starting XI has 11 rows, all squad members, with 1 GKP, 3 to 5 DEF,
\* 2 to 5 MID and 1 to 3 FWD, whatever the player set and the configuration.
C1_SquadAndXIShape ==
    Reported =>
        /\ Len(squad) = 15
        /\ CountAt(squad, "GKP") = 2
        /\ CountAt(squad, "DEF") = 5
        /\ CountAt(squad, "MID") = 5
        /\ CountAt(squad, "FWD") = 3
        /\ Len(xi) = 11
        /\ SeqRows(xi) \subseteq SeqRows(squad)
        /\ CountAt(xi, "GKP") = 1
        /\ CountAt(xi, "DEF") \in 3..5
        /\ CountAt(xi, "MID") \in 2..5
        /\ CountAt(xi, "FWD") \in 1..3

\* C2: in a feasible run the reported spent is the cost of the rows with
\* in_squad = 1 and is at most the budget, and no club has more than
\* max_per_team rows with in_squad = 1.
C2_BudgetAndClubCap ==
    FeasibleRun =>
        /\ spent = RowSum(PickedRows, "cost")
        /\ spent <= budget
        /\ \A i \in idx :
              Cardinality({j \in PickedRows : players[j].team_short = players[i].team_short})
                  <= max_per_team

\* a feasible run that spends the whole budget and fills a club's cap while
\* leaving a player of that club out
C2_Witness ==
    /\ FeasibleRun
    /\ spent = budget
    /\ \E i \in idx \ PickedRows :
          Cardinality({j \in PickedRows : players[j].team_short = players[i].team_short})
              = max_per_team

\* C3: in the reported assignment exactly one row has is_captain = 1, and that
\* row has in_xi = 1 and in_squad = 1.
C3_OneCaptainInXI ==
    Reported =>
        /\ Cardinality(CaptRows) = 1
        /\ CaptRows \subseteq StartRows
        /\ CaptRows \subseteq PickedRows

\* C4: when the programme has no feasible solution the run reports no squad,
\* starting XI, captain, spent or predicted points: a report is only ever made
\* of a programme that has a solution.
C4_InfeasibleReportsNothing ==
    Reported => FeasibleValues # {}

\* C5: in a feasible run every row flagged is_locked has in_squad = 1.
C5_LockedInSquad ==
    FeasibleRun => \A i \in idx : players[i].is_locked => in_squad[i] = 1

\* a feasible run with a locked player who is on the bench, and an unlocked
\* player of the same position left out of the squad
C5_Witness ==
    /\ FeasibleRun
    /\ \E i \in idx :
          /\ players[i].is_locked
          /\ in_squad[i] = 1
          /\ in_xi[i] = 0
          /\ \E j \in idx \ PickedRows :
                players[j].pos = players[i].pos /\ ~players[j].is_locked

\* the value the claim gives an assignment: the scores of the starting XI plus
\* the score of the captain
AssignmentValues ==
    UNION { UNION { UNION { {s + RowSum(c, "score") : c \in FeasibleCaptains(x, y)}
                          : s \in {RowSum(y, "score")} }
                  : y \in FeasibleXIs(x) }
          : x \in FeasibleSquads }

\* C6: in a feasible run the reported assignment satisfies every constraint, no
\* assignment that satisfies them has a larger sum of starting scores plus
\* captain score, and the reported predicted points is that sum.
C6_Optimal ==
    FeasibleRun =>
        /\ Constraints(PickedRows, StartRows, CaptRows)
        /\ pred_points = RowSum(StartRows, "score") + RowSum(CaptRows, "score")
        /\ \A v \in AssignmentValues : v <= pred_points

\* a feasible run where some other feasible assignment is worth strictly less
C6_Witness ==
    /\ FeasibleRun
    /\ \E v \in AssignmentValues : v < pred_points

\* two rows that differ in nothing but the score, a the higher
Twins(a, b) ==
    /\ players[a].pos = players[b].pos
    /\ players[a].team_short = players[b].team_short
    /\ players[a].cost = players[b].cost
    /\ players[a].is_locked = players[b].is_locked
    /\ players[a].score > players[b].score

\* C7: in a feasible run, of two players with the same position, club, cost and
\* lock flag the lower-scoring one starts only if the higher-scoring one starts.
C7_BetterTwinStarts ==
    FeasibleRun =>
        \A a \in idx, b \in idx : (Twins(a, b) /\ in_xi[b] = 1) => in_xi[a] = 1

\* a feasible run with such a pair in the squad, the higher-scoring one starting
\* and the other on the bench
C7_Witness ==
    /\ FeasibleRun
    /\ \E a \in idx, b \in idx :
          Twins(a, b) /\ in_xi[a] = 1 /\ in_squad[b] = 1 /\ in_xi[b] = 0

TableIds(t) == {t[k].id : k \in 1..Len(t)}
MatchesBoth(name) ==
    contains_any(name, lock_names) /\ contains_any(name, exclude_names)

\* C8: a player whose name matches both a lock pattern and an exclude pattern
\* is not removed by the exclude step, and is flagged is_locked in the pool
\* passed to the optimiser.
C8_LockedSurviveExclude ==
    [][ /\ pc = "available" =>
            \A k \in DOMAIN players :
                MatchesBoth(players[k].player_name) => players[k].id \in TableIds(players')
        /\ pc = "excluded" =>
            \A k \in DOMAIN players' :
                MatchesBoth(players'[k].player_name) => players'[k].is_locked ]_vars

\* C8 as amended: when the exclude list has a non-blank entry, the exclude step
\* removes every player whose name matches both a lock pattern and an exclude
\* pattern, so that the player is absent from the pool passed to the optimiser.
C8_ExcludeRemovesLocked ==
    [][ (pc = "available" /\ AnyNonBlank(exclude_names)) =>
            \A k \in DOMAIN players :
                MatchesBoth(players[k].player_name)
                    => players[k].id \notin TableIds(players') ]_vars

\* the pool passed to the optimiser lacks an available player whose name
\* matches both lists
C8_Witness ==
    /\ pc = "ready"
    /\ AnyNonBlank(exclude_names)
    /\ \E k \in DOMAIN ScoredPlayers :
          /\ MatchesBoth(ScoredPlayers[k].player_name)
          /\ ScoredPlayers[k].status = "a"
          /\ ScoredPlayers[k].id \notin TableIds(players)

\* C9: in a feasible run the bench table has 4 rows, the squad members that do
\* not start: 3 outfield players in ascending order of score, then the benched
\* goalkeeper.
C9_BenchOrder ==
    FeasibleRun =>
        /\ Len(bench_order) = 4
        /\ SeqRows(bench_order) = PickedRows \ StartRows
        /\ Cardinality(SeqRows(bench_order)) = 4
        /\ \A k \in 1..3 : players[bench_order[k]].pos # "GKP"
        /\ \A k \in 1..2 :
              players[bench_order[k]].score <= players[bench_order[k + 1]].score
        /\ players[bench_order[4]].pos = "GKP"

\* a feasible run whose benched outfield players do not all have one score
C9_Witness ==
    /\ FeasibleRun
    /\ Len(bench_order) = 4
    /\ players[bench_order[1]].score < players[bench_order[3]].score

\* the first position of evs whose event satisfies the flag test, or 0
FirstWhere(evs, Test(_)) ==
    IF \E k \in 1..Len(evs) : Test(evs[k])
    THEN CHOOSE k \in 1..Len(evs) :
            Test(evs[k]) /\ \A j \in 1..(k - 1) : ~Test(evs[j])
    ELSE 0

IsCurrent(e) == e.is_current
IsNext(e) == e.is_next
NotFinished(e) == ~e.finished

====
